---- MODULE Spec2Model ----
(***************************************************************************)
(* Two cooperative agents exploring a grid world: the per-agent phase      *)
(* state machine (phase-trait implementation, src/src/robot_node/), the    *)
(* wall follower, the rotation tracker, the boundary analyzer and the tick *)
(* loop of src/src/main.rs (sense, exchange, act, termination check).      *)
(***************************************************************************)
EXTENDS Integers, Sequences, FiniteSets, TLC

VARIABLES
    gmap,       \* ground-truth GridMap: [width, height, cells]
    robots,     \* robots[0], robots[1]: the RobotState of each agent
    pc,         \* position of the tick loop: "sense", "exchange", "act", "done"
    tick,       \* main's tick counter
    phase2,     \* main's phase2_completed flag
    start,      \* how the run was constructed (never changes)
    args,       \* inputs of the pure-function specifications
    out,        \* outputs of the pure-function specifications
    history     \* main's history vector: one clone of the robots per tick

vars == <<gmap, robots, pc, tick, phase2, start, args, out, history>>

-----------------------------------------------------------------------------
(* types.rs / constants.rs *)

Unexplored == "Unexplored"
Empty == "Empty"
Obstacle == "Obstacle"
CellState == {Unexplored, Empty, Obstacle}

Idle == "Idle"
InitialWallFind == "InitialWallFind"
BoundaryScouting == "BoundaryScouting"
BoundaryAnalysis == "BoundaryAnalysis"
IslandEscape == "IslandEscape"
CentralScan == "CentralScan"
InteriorSweep == "InteriorSweep"
RobotPhase ==
    {Idle, InitialWallFind, BoundaryScouting, BoundaryAnalysis, IslandEscape,
     CentralScan, InteriorSweep}

Incomplete == "Incomplete"
Island == "Island"
ExteriorWall == "ExteriorWall"

COMMUNICATION_RANGE == 2
INITIAL_SCOUT_DEPTH == 3
EXPECTED_ROTATION_DIFFERENCE == 4
MAX_TICKS == 500

\* Orientations are kept in whole degrees (the code keeps radians).
EAST_RAD == 0
SOUTH_RAD == 90
WEST_RAD == 180
NORTH_RAD == 0 - 90

NORTH == <<0, -1>>
SOUTH == <<0, 1>>
EAST == <<1, 0>>
WEST == <<-1, 0>>

ROBOT_LEFT_HAND == 0
ROBOT_RIGHT_HAND == 1
LEFT_HAND_RULE == 0 - 1
RIGHT_HAND_RULE == 1

Ids == {0, 1}
Partner(id) == 1 - id

\* Option<T>: None is the empty sequence, Some(v) the one-element sequence.
None == << >>
Some(v) == <<v>>
IsSome(o) == Len(o) > 0
Get(o) == o[1]

Abs(n) == IF n < 0 THEN 0 - n ELSE n

Add(p, d) == <<p[1] + d[1], p[2] + d[2]>>

-----------------------------------------------------------------------------
(* GridMap *)

InBounds(p, w, h) == p[1] >= 0 /\ p[1] < w /\ p[2] >= 0 /\ p[2] < h

\* Position in the cell vector of (x, y): row-major index y * width + x.
Idx(p, w) == p[2] * w + p[1] + 1

CellAt(m, p) == m.cells[Idx(p, m.width)]

PointOf(i, w) == <<(i - 1) % w, (i - 1) \div w>>

BorderCells(w, h) ==
    {p \in (0 .. w - 1) \X (0 .. h - 1) :
        p[1] = 0 \/ p[1] = w - 1 \/ p[2] = 0 \/ p[2] = h - 1}

\* A ground-truth map given by its obstacle and unexplored cells.
Grid(w, h, obs, unk) ==
    [width |-> w, height |-> h,
     cells |-> [i \in 1 .. w * h |->
                  IF PointOf(i, w) \in obs THEN Obstacle
                  ELSE IF PointOf(i, w) \in unk THEN Unexplored
                  ELSE Empty]]

BlankCells(w, h) == [i \in 1 .. w * h |-> Unexplored]

-----------------------------------------------------------------------------
(* wall_following.rs: WallFollower *)

get_direction_vector(orientation_rad) ==
    LET angle_deg == orientation_rad % 360
    IN  IF angle_deg = 0 THEN EAST
        ELSE IF angle_deg = 90 THEN SOUTH
        ELSE IF angle_deg = 180 \/ angle_deg = 0 - 180 THEN WEST
        ELSE IF angle_deg = 270 \/ angle_deg = 0 - 90 THEN NORTH
        ELSE NORTH

is_position_valid_and_empty(pos, global_map) ==
    /\ InBounds(pos, global_map.width, global_map.height)
    /\ CellAt(global_map, pos) # Obstacle

is_virtual_wall(pos, virtual_boundaries) ==
    \E b \in 1 .. Len(virtual_boundaries) :
        \E k \in 1 .. Len(virtual_boundaries[b]) : virtual_boundaries[b][k] = pos

is_position_valid_and_empty_virtual(pos, global_map, virtual_boundaries) ==
    /\ is_position_valid_and_empty(pos, global_map)
    /\ ~is_virtual_wall(pos, virtual_boundaries)

\* The vectors of the robot's local frame, from its forward vector d.
RelLeft(d) == <<d[2], 0 - d[1]>>
RelRight(d) == <<0 - d[2], d[1]>>
RelBack(d) == <<0 - d[1], 0 - d[2]>>

\* Variant that reports the agent's own cell as the move when no direction is free.
FirstMove_or_stay(pos, priorities, ok) ==
    LET good == {k \in 1 .. Len(priorities) : ok[k]}
    IN  IF good = {} THEN Some(pos)
        ELSE Some(Add(pos, priorities[CHOOSE k \in good : \A j \in good : k <= j]))

\* "Try each direction in priority order": the first candidate cell whose
\* validity test (ok[k] for priorities[k]) succeeds, as an Option<Point>.
FirstMove(pos, priorities, ok) ==
    LET good == {k \in 1 .. Len(priorities) : ok[k]}
    IN  IF good = {} THEN None
        ELSE Some(Add(pos, priorities[CHOOSE k \in good : \A j \in good : k <= j]))

wall_follow_step_first_move(current_pos, orientation, global_map, partner_pos) ==
    LET d == get_direction_vector(orientation)
        to_partner == <<partner_pos[1] - current_pos[1], partner_pos[2] - current_pos[2]>>
        cross_product == d[1] * to_partner[2] - d[2] * to_partner[1]
        turn_left == cross_product > 0
        priorities ==
            IF turn_left THEN <<RelLeft(d), d, RelRight(d), RelBack(d)>>
            ELSE <<RelRight(d), d, RelLeft(d), RelBack(d)>>
        ok == [k \in 1 .. 4 |->
                  is_position_valid_and_empty(Add(current_pos, priorities[k]), global_map)]
    IN  FirstMove(current_pos, priorities, ok)

\* The two hand rules exchanged.
WallFollowPriorities_swapped(d, tracing_direction) ==
    IF tracing_direction = LEFT_HAND_RULE
    THEN <<RelLeft(d), d, RelRight(d), RelBack(d)>>
    ELSE <<RelRight(d), d, RelLeft(d), RelBack(d)>>

WallFollowPriorities(d, tracing_direction) ==
    IF tracing_direction = LEFT_HAND_RULE
    THEN <<RelRight(d), d, RelLeft(d), RelBack(d)>>
    ELSE <<RelLeft(d), d, RelRight(d), RelBack(d)>>

wall_follow_step(current_pos, orientation, global_map, tracing_direction) ==
    LET d == get_direction_vector(orientation)
        priorities == WallFollowPriorities(d, tracing_direction)
        ok == [k \in 1 .. 4 |->
                  is_position_valid_and_empty(Add(current_pos, priorities[k]), global_map)]
    IN  FirstMove(current_pos, priorities, ok)

wall_follow_step_virtual(current_pos, orientation, global_map, virtual_boundaries, tracing_direction) ==
    LET d == get_direction_vector(orientation)
        priorities ==
            IF tracing_direction = LEFT_HAND_RULE
            THEN <<RelRight(d), d, RelLeft(d), RelBack(d)>>
            ELSE <<RelLeft(d), d, RelRight(d), RelBack(d)>>
        ok == [k \in 1 .. 4 |->
                  is_position_valid_and_empty_virtual(Add(current_pos, priorities[k]),
                                                      global_map, virtual_boundaries)]
    IN  FirstMove(current_pos, priorities, ok)

update_orientation(prev_pos, next_pos) ==
    LET d == <<next_pos[1] - prev_pos[1], next_pos[2] - prev_pos[2]>>
    IN  IF d = <<1, 0>> THEN EAST_RAD
        ELSE IF d = <<-1, 0>> THEN WEST_RAD
        ELSE IF d = <<0, 1>> THEN SOUTH_RAD
        ELSE IF d = <<0, -1>> THEN NORTH_RAD
        ELSE NORTH_RAD

(* wall_following.rs: RotationTracker *)

orientation_to_step(orientation) ==
    LET normalized == orientation % 360
    IN  ((normalized + 45) \div 90) % 4

calculate_rotation_steps(prev_orientation, new_orientation) ==
    LET diff == orientation_to_step(new_orientation) - orientation_to_step(prev_orientation)
    IN  IF diff > 2 THEN diff - 4
        ELSE IF diff < 0 - 2 THEN diff + 4
        ELSE diff

\* Variant with a range one cell too wide.
within_comm_range_wide(a, b) ==
    Abs(a[1] - b[1]) + Abs(a[2] - b[2]) <= COMMUNICATION_RANGE + 1

\* Variant with a strict comparison: agents at distance exactly
\* COMMUNICATION_RANGE no longer exchange maps.
within_comm_range_strict(a, b) ==
    Abs(a[1] - b[1]) + Abs(a[2] - b[2]) < COMMUNICATION_RANGE

within_comm_range(a, b) ==
    Abs(a[1] - b[1]) + Abs(a[2] - b[2]) <= COMMUNICATION_RANGE

-----------------------------------------------------------------------------
(* robot_node/boundary_analysis.rs: BoundaryAnalyzer *)

\* Variant with the two classifications exchanged.
analyze_boundary_by_rotation_swapped(robot0_rotation, robot1_rotation) ==
    IF IsSome(robot0_rotation) /\ IsSome(robot1_rotation)
    THEN LET rotation_difference == Get(robot0_rotation) - Get(robot1_rotation)
         IN  IF rotation_difference = 0 - EXPECTED_ROTATION_DIFFERENCE THEN Island
             ELSE IF rotation_difference = EXPECTED_ROTATION_DIFFERENCE THEN ExteriorWall
             ELSE Incomplete
    ELSE Incomplete

analyze_boundary_by_rotation(robot0_rotation, robot1_rotation) ==
    IF IsSome(robot0_rotation) /\ IsSome(robot1_rotation)
    THEN LET rotation_difference == Get(robot0_rotation) - Get(robot1_rotation)
         IN  IF rotation_difference = 0 - EXPECTED_ROTATION_DIFFERENCE THEN ExteriorWall
             ELSE IF rotation_difference = EXPECTED_ROTATION_DIFFERENCE THEN Island
             ELSE Incomplete
    ELSE Incomplete

-----------------------------------------------------------------------------
(* RobotState and the result of a phase handler *)

NewRobot(id, position, orientation, w, h) ==
    [id |-> id,
     pos |-> position,
     orientation_rad |-> orientation,
     phase |-> InitialWallFind,
     map |-> [width |-> w, height |-> h, cells |-> BlankCells(w, h)],
     scout_depth_n |-> INITIAL_SCOUT_DEPTH,
     boundary_scout |-> None,
     central_scan |-> None,
     loop_analysis_data |-> None]

\* PhaseTransition: Continue is None, Transition(p) is Some(p).
Continue(rs) == [state |-> rs, transition |-> None]
Transition(rs, p) == [state |-> rs, transition |-> Some(p)]

SetCell(m, p, c) == [m EXCEPT !.cells[Idx(p, m.width)] = c]

-----------------------------------------------------------------------------
(* robot_node/mod.rs: sensing and merging *)

\* Variant that senses the four neighbours but not the agent's own cell.
SenseTargets_neighbours_only(rs) ==
    {n \in {Add(rs.pos, NORTH), Add(rs.pos, SOUTH), Add(rs.pos, EAST), Add(rs.pos, WEST)} :
        InBounds(n, rs.map.width, rs.map.height)}

SenseTargets(rs) ==
    {rs.pos} \cup
    {n \in {Add(rs.pos, NORTH), Add(rs.pos, SOUTH), Add(rs.pos, EAST), Add(rs.pos, WEST)} :
        InBounds(n, rs.map.width, rs.map.height)}

update_local_map(rs, global_map) ==
    LET to_update ==
            {p \in SenseTargets(rs) :
                /\ p[2] * global_map.width + p[1] < Len(global_map.cells)
                /\ p[2] * rs.map.width + p[1] < Len(rs.map.cells)}
    IN  [rs EXCEPT !.map.cells =
            [i \in 1 .. Len(rs.map.cells) |->
                IF PointOf(i, rs.map.width) \in to_update
                THEN global_map.cells[Idx(PointOf(i, rs.map.width), global_map.width)]
                ELSE rs.map.cells[i]]]

\* Variant that only fills in Unexplored cells and keeps its own known cells.
merge_map_fill_only(rs, partner_map) ==
    [rs EXCEPT !.map.cells =
        [i \in 1 .. Len(rs.map.cells) |->
            IF i <= Len(partner_map.cells) /\ rs.map.cells[i] = Unexplored
            THEN partner_map.cells[i]
            ELSE rs.map.cells[i]]]

merge_map(rs, partner_map) ==
    [rs EXCEPT !.map.cells =
        [i \in 1 .. Len(rs.map.cells) |->
            IF i <= Len(partner_map.cells) /\ partner_map.cells[i] # Unexplored
            THEN partner_map.cells[i]
            ELSE rs.map.cells[i]]]

-----------------------------------------------------------------------------
(* phases/wall_find.rs *)

\* Variant that looks one cell ahead along the agent's heading instead of -Y.
sense_front_heading(rs) ==
    LET next_pos == Add(rs.pos, get_direction_vector(rs.orientation_rad))
    IN  IF ~InBounds(next_pos, rs.map.width, rs.map.height)
        THEN [next_pos |-> next_pos, cell |-> Obstacle]
        ELSE [next_pos |-> next_pos, cell |-> CellAt(rs.map, next_pos)]

sense_front(rs) ==
    LET next_pos == <<rs.pos[1], rs.pos[2] - 1>>
    IN  IF ~InBounds(next_pos, rs.map.width, rs.map.height)
        THEN [next_pos |-> next_pos, cell |-> Obstacle]
        ELSE [next_pos |-> next_pos, cell |-> CellAt(rs.map, next_pos)]

WallFindExecute(rs) ==
    LET f == sense_front(rs)
    IN  IF f.cell = Obstacle
        THEN Transition(rs, BoundaryScouting)
        ELSE Continue([rs EXCEPT !.pos = f.next_pos,
                                 !.map = SetCell(rs.map, f.next_pos, Empty)])

-----------------------------------------------------------------------------
(* phases/boundary_scouting.rs *)

initialize_boundary_scout(rs) ==
    [rs EXCEPT !.boundary_scout =
        Some([tracing_direction |->
                  IF rs.id = ROBOT_LEFT_HAND THEN RIGHT_HAND_RULE ELSE LEFT_HAND_RULE,
              steps_taken |-> 0,
              steps_taken_this_scouting_mission |-> 0,
              returning |-> FALSE,
              path |-> <<rs.pos>>,
              first_move |-> TRUE,
              initial_scouting_direction |-> None,
              total_rotation_steps |-> 0])]

\* Variant that grows the depth by the initial depth instead of doubling it.
DoubleDepth_additive(n) == n + INITIAL_SCOUT_DEPTH

\* scout_depth_n *= 2 (u32; a leg of depth n takes more than 2n ticks, so the
\* value stays far below 2^32 within the tick cap).
DoubleDepth(n) == n * 2

\* Variant that clears the rotation total when a leg is reset.
handle_return_journey_zeroing(rs, scout_n) ==
    IF IsSome(rs.boundary_scout)
    THEN LET scout == Get(rs.boundary_scout)
             path_length == Len(scout.path)
         IN  IF scout.steps_taken_this_scouting_mission + 1 < path_length
             THEN LET target_index == path_length - 2 - scout.steps_taken_this_scouting_mission
                      next_pos == scout.path[target_index + 1]
                  IN  Continue([rs EXCEPT
                          !.orientation_rad = update_orientation(rs.pos, next_pos),
                          !.pos = next_pos,
                          !.boundary_scout[1].steps_taken_this_scouting_mission = @ + 1])
             ELSE Continue([rs EXCEPT
                      !.scout_depth_n = DoubleDepth(rs.scout_depth_n),
                      !.boundary_scout[1].steps_taken_this_scouting_mission = 0,
                      !.boundary_scout[1].returning = FALSE,
                      !.boundary_scout[1].path = <<rs.pos>>,
                      !.boundary_scout[1].first_move = TRUE,
                      !.boundary_scout[1].total_rotation_steps = 0])
    ELSE Continue(rs)

\* Variant that ends the return one cell before the start of the leg.
handle_return_journey_short(rs, scout_n) ==
    IF IsSome(rs.boundary_scout)
    THEN LET scout == Get(rs.boundary_scout)
             path_length == Len(scout.path)
         IN  IF scout.steps_taken_this_scouting_mission + 2 < path_length
             THEN LET target_index == path_length - 2 - scout.steps_taken_this_scouting_mission
                      next_pos == scout.path[target_index + 1]
                  IN  Continue([rs EXCEPT
                          !.orientation_rad = update_orientation(rs.pos, next_pos),
                          !.pos = next_pos,
                          !.boundary_scout[1].steps_taken_this_scouting_mission = @ + 1])
             ELSE Continue([rs EXCEPT
                      !.scout_depth_n = DoubleDepth(rs.scout_depth_n),
                      !.boundary_scout[1].steps_taken_this_scouting_mission = 0,
                      !.boundary_scout[1].returning = FALSE,
                      !.boundary_scout[1].path = <<rs.pos>>,
                      !.boundary_scout[1].first_move = TRUE])
    ELSE Continue(rs)

handle_return_journey(rs, scout_n) ==
    IF IsSome(rs.boundary_scout)
    THEN LET scout == Get(rs.boundary_scout)
             path_length == Len(scout.path)
         IN  IF scout.steps_taken_this_scouting_mission + 1 < path_length
             THEN \* continue returning
                  LET target_index == path_length - 2 - scout.steps_taken_this_scouting_mission
                      next_pos == scout.path[target_index + 1]
                  IN  Continue([rs EXCEPT
                          !.orientation_rad = update_orientation(rs.pos, next_pos),
                          !.pos = next_pos,
                          !.boundary_scout[1].steps_taken_this_scouting_mission = @ + 1])
             ELSE \* back at the start of the leg
                  Continue([rs EXCEPT
                      !.scout_depth_n = DoubleDepth(rs.scout_depth_n),
                      !.boundary_scout[1].steps_taken_this_scouting_mission = 0,
                      !.boundary_scout[1].returning = FALSE,
                      !.boundary_scout[1].path = <<rs.pos>>,
                      !.boundary_scout[1].first_move = TRUE])
    ELSE Continue(rs)

\* The first move of the very first leg: the direction is chosen from the
\* partner's position and fixes the stored direction and the chirality.
FirstLegChoice(rs, partner, global_map) ==
    LET Decide(next_pos) ==
            IF IsSome(next_pos)
            THEN LET pos == Get(next_pos)
                     direction == <<pos[1] - rs.pos[1], pos[2] - rs.pos[2]>>
                     cur == get_direction_vector(rs.orientation_rad)
                     cross_product == cur[1] * direction[2] - cur[2] * direction[1]
                     turned_left == cross_product > 0
                     correct_tracing_direction ==
                         IF turned_left THEN RIGHT_HAND_RULE ELSE LEFT_HAND_RULE
                 IN  [next |-> next_pos,
                      state |-> [rs EXCEPT
                          !.boundary_scout[1].initial_scouting_direction = Some(direction),
                          !.boundary_scout[1].tracing_direction = correct_tracing_direction]]
            ELSE [next |-> next_pos, state |-> rs]
    IN  Decide(wall_follow_step_first_move(rs.pos, rs.orientation_rad, global_map,
                                           partner.pos))

\* Variant that starts later legs by plain wall following, ignoring the
\* stored direction.
ForwardChoice_unstored(rs, partner, global_map) ==
    LET scout == Get(rs.boundary_scout)
    IN  IF scout.first_move /\ ~IsSome(scout.initial_scouting_direction)
        THEN FirstLegChoice(rs, partner, global_map)
        ELSE [next |-> wall_follow_step(rs.pos, rs.orientation_rad, global_map,
                                        scout.tracing_direction),
              state |-> rs]

\* The cell the outbound step goes to (an Option<Point>) and the state with
\* the stored direction and chirality set.
ForwardChoice(rs, partner, global_map) ==
    LET scout == Get(rs.boundary_scout)
    IN  IF scout.first_move
        THEN IF IsSome(scout.initial_scouting_direction)
             THEN LET next == Add(rs.pos, Get(scout.initial_scouting_direction))
                  IN  IF is_position_valid_and_empty(next, global_map)
                      THEN [next |-> Some(next), state |-> rs]
                      ELSE [next |-> wall_follow_step(rs.pos, rs.orientation_rad, global_map,
                                                      scout.tracing_direction),
                            state |-> rs]
             ELSE FirstLegChoice(rs, partner, global_map)
        ELSE [next |-> wall_follow_step(rs.pos, rs.orientation_rad, global_map,
                                        scout.tracing_direction),
              state |-> rs]

\* Variant that keeps the first move's turn in the total.
TrackRotation_no_reset(total, first_move, prev_orientation, new_orientation) ==
    total + calculate_rotation_steps(prev_orientation, new_orientation)

\* Rotation total after an outbound step: the step's delta is added, and the
\* total is reset after the first move of a leg.
TrackRotation(total, first_move, prev_orientation, new_orientation) ==
    IF first_move THEN 0
    ELSE total + calculate_rotation_steps(prev_orientation, new_orientation)

\* Rendezvous accepted on the partner's own cell too.
Rendezvous_colocated(first_move, position, partner_position) ==
    /\ ~first_move
    /\ within_comm_range(position, partner_position)

\* Rendezvous accepted only on the first move of a leg.
Rendezvous_on_first_move(first_move, position, partner_position) ==
    /\ first_move
    /\ within_comm_range(position, partner_position)
    /\ position # partner_position

\* Rendezvous test after an outbound step.
Rendezvous(first_move, position, partner_position) ==
    /\ ~first_move
    /\ within_comm_range(position, partner_position)
    /\ position # partner_position

execute_forward_scouting(rs, partner, global_map) ==
    LET first_move == Get(rs.boundary_scout).first_move
        \* the rendezvous check on the state after the step
        Finish(r2) ==
            IF Rendezvous(first_move, r2.pos, partner.pos)
            THEN Transition(r2, BoundaryAnalysis)
            ELSE Continue(r2)
        \* the step to next_pos, with the rotation, path and counters updated
        Move(r1, next_pos, new_orientation) ==
            LET scout == Get(r1.boundary_scout)
            IN  Finish([r1 EXCEPT
                    !.orientation_rad = new_orientation,
                    !.pos = next_pos,
                    !.boundary_scout[1].total_rotation_steps =
                        TrackRotation(scout.total_rotation_steps, scout.first_move,
                                      r1.orientation_rad, new_orientation),
                    !.boundary_scout[1].path = Append(scout.path, next_pos),
                    !.boundary_scout[1].steps_taken = scout.steps_taken + 1,
                    !.boundary_scout[1].steps_taken_this_scouting_mission =
                        scout.steps_taken_this_scouting_mission + 1,
                    !.boundary_scout[1].first_move = FALSE])
        Step(choice) ==
            IF IsSome(choice.next)
            THEN Move(choice.state, Get(choice.next),
                      update_orientation(choice.state.pos, Get(choice.next)))
            ELSE Continue(choice.state)
    IN  IF ~IsSome(rs.boundary_scout) THEN Continue(rs)
        ELSE Step(ForwardChoice(rs, partner, global_map))

BoundaryScoutingExecute(rs0, partner, global_map) ==
    LET Run(rs) ==
            LET scout_n == rs.scout_depth_n
                scout == Get(rs.boundary_scout)
            IN  IF scout.returning
                THEN handle_return_journey(rs, scout_n)
                ELSE IF scout.steps_taken_this_scouting_mission < scout_n
                THEN execute_forward_scouting(rs, partner, global_map)
                ELSE Continue([rs EXCEPT
                         !.boundary_scout[1].returning = TRUE,
                         !.boundary_scout[1].steps_taken_this_scouting_mission = 0])
    IN  Run(IF ~IsSome(rs0.boundary_scout) THEN initialize_boundary_scout(rs0) ELSE rs0)

-----------------------------------------------------------------------------
(* phases/boundary_analysis.rs *)

RotationOf(rs) ==
    IF IsSome(rs.boundary_scout)
    THEN Some(Get(rs.boundary_scout).total_rotation_steps)
    ELSE None

\* Variant that takes the running agent's total as robot 0's whatever its id.
PhaseAnalyzeByRotation_own_first(rs, partner) ==
    analyze_boundary_by_rotation(RotationOf(rs), RotationOf(partner))

PhaseAnalyzeByRotation(rs, partner) ==
    LET robot0_rotation ==
            IF rs.id = ROBOT_LEFT_HAND THEN RotationOf(rs) ELSE RotationOf(partner)
        robot1_rotation ==
            IF rs.id = ROBOT_RIGHT_HAND THEN RotationOf(rs) ELSE RotationOf(partner)
    IN  analyze_boundary_by_rotation(robot0_rotation, robot1_rotation)

\* Variant that classifies without waiting for the partner.
BoundaryAnalysisExecute_ungated(rs, partner) ==
    LET rotation_analysis == PhaseAnalyzeByRotation(rs, partner)
    IN  IF rotation_analysis = Island THEN Transition(rs, IslandEscape)
        ELSE IF rotation_analysis = ExteriorWall THEN Transition(rs, CentralScan)
        ELSE Continue(rs)

\* Variant that starts the interior sweep on an exterior-wall classification.
BoundaryAnalysisExecute_to_sweep(rs, partner) ==
    IF partner.phase = BoundaryAnalysis
    THEN LET rotation_analysis == PhaseAnalyzeByRotation(rs, partner)
         IN  IF rotation_analysis = Island THEN Transition(rs, IslandEscape)
             ELSE IF rotation_analysis = ExteriorWall THEN Transition(rs, InteriorSweep)
             ELSE Continue(rs)
    ELSE Continue(rs)

\* Variant that finishes on an exterior-wall classification.
BoundaryAnalysisExecute_to_idle(rs, partner) ==
    IF partner.phase = BoundaryAnalysis
    THEN LET rotation_analysis == PhaseAnalyzeByRotation(rs, partner)
         IN  IF rotation_analysis = Island THEN Transition(rs, IslandEscape)
             ELSE IF rotation_analysis = ExteriorWall THEN Transition(rs, Idle)
             ELSE Continue(rs)
    ELSE Continue(rs)

BoundaryAnalysisExecute(rs, partner) ==
    IF partner.phase = BoundaryAnalysis
    THEN LET rotation_analysis == PhaseAnalyzeByRotation(rs, partner)
         IN  IF rotation_analysis = Island THEN Transition(rs, IslandEscape)
             ELSE IF rotation_analysis = ExteriorWall THEN Transition(rs, CentralScan)
             ELSE Continue(rs)
    ELSE Continue(rs)

-----------------------------------------------------------------------------
(* phases/island_escape.rs *)

RECURSIVE SumX(_), SumY(_)
SumX(path) == IF path = << >> THEN 0 ELSE Head(path)[1] + SumX(Tail(path))
SumY(path) == IF path = << >> THEN 0 ELSE Head(path)[2] + SumY(Tail(path))

calculate_path_centroid(path, fallback) ==
    IF Len(path) = 0 THEN fallback
    ELSE <<SumX(path) \div Len(path), SumY(path) \div Len(path)>>

calculate_escape_direction(current_pos, island_center) ==
    LET dx == current_pos[1] - island_center[1]
        dy == current_pos[2] - island_center[2]
    IN  IF Abs(dx) > Abs(dy)
        THEN <<IF dx > 0 THEN 1 ELSE 0 - 1, 0>>
        ELSE <<0, IF dy > 0 THEN 1 ELSE 0 - 1>>

try_alternative_escape_directions(rs, global_map) ==
    LET priorities == <<NORTH, EAST, SOUTH, WEST>>
        ok == [k \in 1 .. 4 |->
                  is_position_valid_and_empty(Add(rs.pos, priorities[k]), global_map)]
        next == FirstMove(rs.pos, priorities, ok)
    IN  IF IsSome(next)
        THEN [rs EXCEPT !.orientation_rad = update_orientation(rs.pos, Get(next)),
                        !.pos = Get(next)]
        ELSE rs

\* Variant that restarts scouting with the old scout state and depth.
IslandEscapeExecute_keep_scout(rs, global_map) ==
    IF IsSome(rs.boundary_scout)
    THEN LET island_center == calculate_path_centroid(Get(rs.boundary_scout).path, rs.pos)
             d == calculate_escape_direction(rs.pos, island_center)
             next_pos == Add(rs.pos, d)
         IN  IF is_position_valid_and_empty(next_pos, global_map)
             THEN LET moved == [rs EXCEPT
                          !.orientation_rad = update_orientation(rs.pos, next_pos),
                          !.pos = next_pos]
                      forward_pos == Add(next_pos, d)
                  IN  IF ~is_position_valid_and_empty(forward_pos, global_map)
                      THEN Transition(moved, BoundaryScouting)
                      ELSE Continue(moved)
             ELSE Continue(try_alternative_escape_directions(rs, global_map))
    ELSE Transition(rs, InitialWallFind)

IslandEscapeExecute(rs, global_map) ==
    IF IsSome(rs.boundary_scout)
    THEN LET island_center == calculate_path_centroid(Get(rs.boundary_scout).path, rs.pos)
             d == calculate_escape_direction(rs.pos, island_center)
             next_pos == Add(rs.pos, d)
         IN  IF is_position_valid_and_empty(next_pos, global_map)
             THEN LET moved == [rs EXCEPT
                          !.orientation_rad = update_orientation(rs.pos, next_pos),
                          !.pos = next_pos]
                      forward_pos == Add(next_pos, d)
                  IN  IF ~is_position_valid_and_empty(forward_pos, global_map)
                      THEN Transition([moved EXCEPT !.scout_depth_n = INITIAL_SCOUT_DEPTH,
                                                    !.boundary_scout = None],
                                      BoundaryScouting)
                      ELSE Continue(moved)
             ELSE Continue(try_alternative_escape_directions(rs, global_map))
    ELSE Transition(rs, InitialWallFind)

-----------------------------------------------------------------------------
(* phases/central_scan.rs *)

InwardDirections == <<SOUTH, NORTH, EAST, WEST>>

is_position_valid_for_inward_movement(pos, robot_map, completed_loops) ==
    /\ InBounds(pos, robot_map.width, robot_map.height)
    /\ pos[2] * robot_map.width + pos[1] < Len(robot_map.cells)
    /\ CellAt(robot_map, pos) # Obstacle
    /\ ~is_virtual_wall(pos, completed_loops)

move_robot_inward(rs) ==
    IF IsSome(rs.central_scan)
    THEN LET ok == [k \in 1 .. 4 |->
                       is_position_valid_for_inward_movement(
                           Add(rs.pos, InwardDirections[k]), rs.map,
                           Get(rs.central_scan).completed_loops)]
             next == FirstMove(rs.pos, InwardDirections, ok)
         IN  IF IsSome(next) THEN [rs EXCEPT !.pos = Get(next)] ELSE rs
    ELSE rs

reset_boundary_scout_for_virtual_tracing(rs) ==
    [rs EXCEPT !.boundary_scout =
        Some([tracing_direction |->
                  IF rs.id = ROBOT_LEFT_HAND THEN RIGHT_HAND_RULE ELSE LEFT_HAND_RULE,
              steps_taken |-> 0,
              steps_taken_this_scouting_mission |-> 0,
              returning |-> FALSE,
              path |-> <<rs.pos>>,
              first_move |-> TRUE,
              initial_scouting_direction |-> None,
              total_rotation_steps |-> 0])]

initialize_central_scan(rs) ==
    IF IsSome(rs.boundary_scout)
    THEN LET virtual_boundary == Get(rs.boundary_scout).path
             r1 == [rs EXCEPT !.central_scan =
                        Some([virtual_boundary |-> virtual_boundary,
                              scan_iteration |-> 0,
                              completed_loops |-> <<virtual_boundary>>])]
         IN  reset_boundary_scout_for_virtual_tracing(move_robot_inward(r1))
    ELSE rs

is_adjacent_to_virtual_boundary(pos, virtual_boundaries) ==
    \E d \in {EAST, WEST, SOUTH, NORTH} : is_virtual_wall(Add(pos, d), virtual_boundaries)

calculate_first_virtual_move(rs, virtual_boundaries) ==
    LET free == [k \in 1 .. 4 |->
                    is_position_valid_and_empty_virtual(
                        Add(rs.pos, InwardDirections[k]), rs.map, virtual_boundaries)]
        along_ok == [k \in 1 .. 4 |->
                        /\ free[k]
                        /\ is_adjacent_to_virtual_boundary(
                               Add(rs.pos, InwardDirections[k]), virtual_boundaries)]
        along == FirstMove(rs.pos, InwardDirections, along_ok)
    IN  IF IsSome(along) THEN along ELSE FirstMove(rs.pos, InwardDirections, free)

loop_contains_unexplored_area(rs) ==
    \E i \in 1 .. Len(rs.map.cells) : rs.map.cells[i] = Unexplored

handle_completed_virtual_loop(rs) ==
    IF loop_contains_unexplored_area(rs)
    THEN IF IsSome(rs.central_scan) /\ IsSome(rs.boundary_scout)
         THEN LET new_virtual_boundary == Get(rs.boundary_scout).path
                  cs == Get(rs.central_scan)
              IN  Continue(reset_boundary_scout_for_virtual_tracing(move_robot_inward(
                      [rs EXCEPT !.central_scan =
                          Some([virtual_boundary |-> new_virtual_boundary,
                                scan_iteration |-> cs.scan_iteration + 1,
                                completed_loops |->
                                    Append(cs.completed_loops, new_virtual_boundary)])])))
         ELSE Continue(rs)
    ELSE Transition(rs, Idle)

\* VirtualTraceResult: "Continue", "LoopCompleted" or "NoProgress", with the state.
execute_direct_virtual_tracing(rs, partner, global_map, virtual_boundaries) ==
    LET scout == Get(rs.boundary_scout)
        first_move == scout.first_move
        Finish(r1) ==
            IF Rendezvous(first_move, r1.pos, partner.pos)
            THEN [state |-> r1, result |-> "LoopCompleted"]
            ELSE [state |-> r1, result |-> "Continue"]
        Step(next) ==
            IF IsSome(next)
            THEN Finish([rs EXCEPT
                     !.orientation_rad = update_orientation(rs.pos, Get(next)),
                     !.pos = Get(next),
                     !.boundary_scout[1].path = Append(scout.path, Get(next)),
                     !.boundary_scout[1].steps_taken = scout.steps_taken + 1,
                     !.boundary_scout[1].first_move = FALSE])
            ELSE [state |-> rs, result |-> "NoProgress"]
    IN  IF ~IsSome(rs.boundary_scout) THEN [state |-> rs, result |-> "Continue"]
        ELSE Step(IF first_move
                  THEN calculate_first_virtual_move(rs, virtual_boundaries)
                  ELSE wall_follow_step_virtual(rs.pos, rs.orientation_rad, global_map,
                                                virtual_boundaries, scout.tracing_direction))

execute_central_scan_step(rs, partner, global_map) ==
    LET Handle(trace) ==
            IF trace.result = "Continue" THEN Continue(trace.state)
            ELSE IF trace.result = "LoopCompleted"
            THEN handle_completed_virtual_loop(trace.state)
            ELSE Transition(trace.state, Idle)
    IN  IF ~IsSome(rs.central_scan) THEN Continue(rs)
        ELSE Handle(execute_direct_virtual_tracing(
                        rs, partner, global_map, Get(rs.central_scan).completed_loops))

\* Variant that goes on scanning whatever the partner's phase.
CentralScanExecute_ignore_partner(rs, partner, global_map) ==
    execute_central_scan_step(
        IF ~IsSome(rs.central_scan) THEN initialize_central_scan(rs) ELSE rs,
        partner, global_map)

CentralScanExecute(rs, partner, global_map) ==
    IF partner.phase = Idle THEN Transition(rs, Idle)
    ELSE IF partner.phase # CentralScan THEN Continue(rs)
    ELSE execute_central_scan_step(
             IF ~IsSome(rs.central_scan) THEN initialize_central_scan(rs) ELSE rs,
             partner, global_map)

-----------------------------------------------------------------------------
(* phases/interior_sweep.rs *)

manhattan_distance(a, b) == Abs(a[1] - b[1]) + Abs(a[2] - b[2])

is_exploration_complete(rs) ==
    Cardinality({i \in 1 .. Len(rs.map.cells) : rs.map.cells[i] = Unexplored}) < 5

find_frontier_cells(m) ==
    {p \in (0 .. m.width - 1) \X (0 .. m.height - 1) :
        /\ CellAt(m, p) = Empty
        /\ \E d \in {NORTH, SOUTH, EAST, WEST} :
               /\ InBounds(Add(p, d), m.width, m.height)
               /\ CellAt(m, Add(p, d)) = Unexplored}

\* sort_by_key(|p| (p.x, p.y))
RECURSIVE trace_frontier_boundary(_)
trace_frontier_boundary(frontier_cells) ==
    IF frontier_cells = {} THEN << >>
    ELSE LET m == CHOOSE p \in frontier_cells :
                      \A q \in frontier_cells :
                          p[1] < q[1] \/ (p[1] = q[1] /\ p[2] <= q[2])
         IN  <<m>> \o trace_frontier_boundary(frontier_cells \ {m})

\* min_by_key over positions lo..hi of a sequence: the first closest point.
MinByDistance(path, lo, hi, from) ==
    LET best == CHOOSE k \in lo .. hi :
                    \A j \in lo .. hi :
                        \/ manhattan_distance(from, path[k]) < manhattan_distance(from, path[j])
                        \/ /\ manhattan_distance(from, path[k]) = manhattan_distance(from, path[j])
                           /\ k <= j
    IN  path[best]

initialize_sweep_iteration(rs, frontier_cells) ==
    LET Target(frontier_path, n) ==
            IF n < 2 THEN frontier_path[1]
            ELSE IF rs.id = ROBOT_LEFT_HAND
            THEN MinByDistance(frontier_path, 1, n \div 2 + 1, rs.pos)
            ELSE MinByDistance(frontier_path, n \div 2 + 1, n, rs.pos)
        Assign(frontier_path) ==
            [rs EXCEPT !.loop_analysis_data[1].target_position =
                Some(Target(frontier_path, Len(frontier_path)))]
    IN  Assign(trace_frontier_boundary(frontier_cells))

ReachedTarget(rs) ==
    /\ IsSome(rs.loop_analysis_data)
    /\ IsSome(Get(rs.loop_analysis_data).target_position)
    /\ rs.pos = Get(Get(rs.loop_analysis_data).target_position)

both_robots_reached_targets(rs, partner) == ReachedTarget(rs) /\ ReachedTarget(partner)

move_toward_target_along_frontier(rs, target, global_map) ==
    LET dirs == <<NORTH, SOUTH, EAST, WEST>>
        valid == {k \in 1 .. 4 : is_position_valid_and_empty(Add(rs.pos, dirs[k]), global_map)}
        Dist(k) == manhattan_distance(Add(rs.pos, dirs[k]), target)
    IN  IF valid = {} THEN None
        ELSE LET best == CHOOSE k \in valid :
                             \A j \in valid : Dist(k) < Dist(j) \/ (Dist(k) = Dist(j) /\ k <= j)
             IN  Some(Add(rs.pos, dirs[best]))

execute_sweep_movement(rs, partner, global_map) ==
    LET Go(r1, next) ==
            IF IsSome(next)
            THEN Continue([r1 EXCEPT
                     !.pos = Get(next),
                     !.orientation_rad = update_orientation(r1.pos, Get(next))])
            ELSE Transition(r1, Idle)
        Sweep(r1) ==
            LET target_pos == Get(Get(r1.loop_analysis_data).target_position)
            IN  IF r1.pos = target_pos
                THEN IF both_robots_reached_targets(r1, partner)
                     THEN Continue([r1 EXCEPT !.loop_analysis_data[1].target_position = None])
                     ELSE Continue(r1)
                ELSE Go(r1, move_toward_target_along_frontier(r1, target_pos, global_map))
        WithFrontier(frontier_cells) ==
            IF frontier_cells = {} THEN Transition(rs, Idle)
            ELSE Sweep(IF ~IsSome(Get(rs.loop_analysis_data).target_position)
                       THEN initialize_sweep_iteration(rs, frontier_cells)
                       ELSE rs)
    IN  WithFrontier(find_frontier_cells(rs.map))

initialize_interior_sweep(rs) ==
    [rs EXCEPT !.loop_analysis_data =
        Some([path_traced |->
                  IF IsSome(rs.boundary_scout) THEN Get(rs.boundary_scout).path ELSE << >>,
              target_position |-> None])]

InteriorSweepExecute(rs, partner, global_map) ==
    IF partner.phase # InteriorSweep THEN Continue(rs)
    ELSE IF is_exploration_complete(rs) THEN Transition(rs, Idle)
    ELSE execute_sweep_movement(
             IF ~IsSome(rs.loop_analysis_data) THEN initialize_interior_sweep(rs) ELSE rs,
             partner, global_map)

-----------------------------------------------------------------------------
(* robot_node/mod.rs: RobotNode::tick *)

PhaseExecute(rs, all_robots, global_map) ==
    LET partner == all_robots[Partner(rs.id)]
    IN  CASE rs.phase = InitialWallFind -> WallFindExecute(rs)
          [] rs.phase = BoundaryScouting -> BoundaryScoutingExecute(rs, partner, global_map)
          [] rs.phase = BoundaryAnalysis -> BoundaryAnalysisExecute(rs, partner)
          [] rs.phase = IslandEscape -> IslandEscapeExecute(rs, global_map)
          [] rs.phase = InteriorSweep -> InteriorSweepExecute(rs, partner, global_map)
          [] rs.phase = CentralScan -> CentralScanExecute(rs, partner, global_map)
          [] OTHER -> Continue(rs)

RobotTick(rs, all_robots, global_map) ==
    LET Apply(res) ==
            IF IsSome(res.transition)
            THEN [res.state EXCEPT !.phase = Get(res.transition)]
            ELSE res.state
    IN  Apply(PhaseExecute(rs, all_robots, global_map))

-----------------------------------------------------------------------------
(* Ground-truth maps and start configurations *)

\* 6x4 empty box.
MapBox == Grid(6, 4, BorderCells(6, 4), {})

\* 10x6 box with a central 2x2 island.
MapIsland ==
    Grid(10, 6, BorderCells(10, 6) \cup {<<4, 2>>, <<5, 2>>, <<4, 3>>, <<5, 3>>}, {})

\* 12x4 corridor.
MapCorridor == Grid(12, 4, BorderCells(12, 4), {})

\* 6x4 box whose second row is closed except for one notch at (2,2).
MapNotch ==
    Grid(6, 4, BorderCells(6, 4) \cup {<<1, 2>>, <<3, 2>>, <<4, 2>>}, {})

\* 4x4 box whose upper interior row is Unexplored in the ground truth
\* (the map format's ' ' or '?').
MapUnknown == Grid(4, 4, BorderCells(4, 4), {<<1, 1>>, <<2, 1>>})

\* 6x4 box with one interior obstacle at (4,2).
MapDent == Grid(6, 4, BorderCells(6, 4) \cup {<<4, 2>>}, {})

AllMaps == <<MapBox, MapIsland, MapCorridor, MapNotch, MapUnknown, MapDent>>

NumMaps == 5

Maps == {AllMaps[k] : k \in 1 .. (IF NumMaps < Len(AllMaps) THEN NumMaps ELSE Len(AllMaps))}

\* simulation_manager.rs: the ordered pairs of cardinally adjacent Empty cells
\* that are not on the border.
StartPairs(m) ==
    LET Interior(p) ==
            p[1] >= 1 /\ p[1] < m.width - 1 /\ p[2] >= 1 /\ p[2] < m.height - 1
    IN  {pr \in ((0 .. m.width - 1) \X (0 .. m.height - 1)) \X
                ((0 .. m.width - 1) \X (0 .. m.height - 1)) :
            /\ Interior(pr[1]) /\ Interior(pr[2])
            /\ CellAt(m, pr[1]) = Empty /\ CellAt(m, pr[2]) = Empty
            /\ \E d \in {<<0, 1>>, <<1, 0>>, <<0, -1>>, <<-1, 0>>} : pr[2] = Add(pr[1], d)}

\* Robots built by hand and given to SimulationManager::new, as the
\* integration tests do: an adjacent pair, facing North, maps blank.
TestRobots(m, pr) ==
    [i \in Ids |-> NewRobot(i, pr[i + 1], NORTH_RAD, m.width, m.height)]

\* Robots built by SimulationManager::from_map_file: orientation 0.0, both
\* positions set to the centre of the map, surroundings sensed once.
FileRobots(m) ==
    LET centre == <<m.width \div 2, m.height \div 2>>
    IN  [i \in Ids |->
            update_local_map(NewRobot(i, centre, EAST_RAD, m.width, m.height), m)]

-----------------------------------------------------------------------------
(* main.rs: the tick loop *)

Init ==
    /\ gmap \in Maps
    /\ \/ \E pr \in StartPairs(gmap) :
              /\ robots = TestRobots(gmap, pr)
              /\ start = [mode |-> "new", p0 |-> pr[1], p1 |-> pr[2]]
       \/ /\ StartPairs(gmap) # {}
          /\ robots = FileRobots(gmap)
          /\ start = [mode |-> "file", p0 |-> robots[0].pos, p1 |-> robots[1].pos]
    /\ pc = "sense"
    /\ tick = 0
    /\ phase2 = FALSE
    /\ args = << >>
    /\ out = << >>
    /\ history = << >>

\* 1. See surroundings
Sense ==
    /\ pc = "sense"
    /\ robots' = [i \in Ids |-> update_local_map(robots[i], gmap)]
    /\ pc' = "exchange"
    /\ UNCHANGED <<gmap, tick, phase2, start, args, out, history>>

ExchangeRobot(rs, robots_snapshot) ==
    LET other == robots_snapshot[Partner(rs.id)]
    IN  IF other.id # rs.id /\ within_comm_range(rs.pos, other.pos)
        THEN merge_map(rs, other.map)
        ELSE rs

\* 2. Exchange maps if possible
Exchange ==
    /\ pc = "exchange"
    /\ robots' = [i \in Ids |-> ExchangeRobot(robots[i], robots)]
    /\ pc' = "act"
    /\ UNCHANGED <<gmap, tick, phase2, start, args, out, history>>

\* The exchange loop as main.rs runs it: the agents one after the other in
\* the given order, each merging from the snapshot cloned before the loop.
ExchangeInOrder(rb, order) ==
    LET robots_snapshot == rb
        Second(r1) == [r1 EXCEPT ![order[2]] = ExchangeRobot(r1[order[2]], robots_snapshot)]
    IN  Second([rb EXCEPT ![order[1]] = ExchangeRobot(rb[order[1]], robots_snapshot)])

\* Variant of the move loop in which each agent reads the live vector.
ActInOrder_live(rb, order, global_map) ==
    LET Second(r1) == [r1 EXCEPT ![order[2]] = RobotTick(r1[order[2]], r1, global_map)]
    IN  Second([rb EXCEPT ![order[1]] = RobotTick(rb[order[1]], rb, global_map)])

\* The move loop as main.rs and SimulationManager::tick run it: the agents
\* one after the other in the given order, each ticking against the snapshot
\* cloned before the loop.
ActInOrder(rb, order, global_map) ==
    LET robots_snapshot == rb
        Second(r1) == [r1 EXCEPT ![order[2]] = RobotTick(r1[order[2]], robots_snapshot, global_map)]
    IN  Second([rb EXCEPT ![order[1]] = RobotTick(rb[order[1]], robots_snapshot, global_map)])

AllInPhase(rb, phases) == \A i \in Ids : rb[i].phase \in phases

\* What the loop does after the move step: "break", or the flag it carries on with.
LoopCheck(rb, t, p2) ==
    LET both_robots_idle == AllInPhase(rb, {Idle})
        all_boundary_analyzed == AllInPhase(rb, {BoundaryAnalysis})
        all_in_advanced_phases == AllInPhase(rb, {IslandEscape, InteriorSweep})
        any_completed == \E i \in Ids : rb[i].phase = Idle
        stop ==
            \/ both_robots_idle
            \/ ~both_robots_idle /\ all_boundary_analyzed /\ p2
            \/ /\ ~both_robots_idle /\ ~all_boundary_analyzed
               /\ all_in_advanced_phases /\ any_completed
    IN  [stop |-> stop \/ t + 1 > MAX_TICKS,
         tick |-> IF stop THEN t ELSE t + 1,
         phase2 |-> p2 \/ (~both_robots_idle /\ all_boundary_analyzed)]

\* 4. Move, then the completion checks and the tick cap
Act ==
    /\ pc = "act"
    /\ robots' = [i \in Ids |-> RobotTick(robots[i], robots, gmap)]
    /\ LET c == LoopCheck(robots', tick, phase2)
       IN  /\ pc' = IF c.stop THEN "done" ELSE "sense"
           /\ tick' = c.tick
           /\ phase2' = c.phase2
    /\ UNCHANGED <<gmap, start, args, out, history>>

Next == Sense \/ Exchange \/ Act

Spec == Init /\ [][Next]_vars

\* The loop's control: every step of Next moves pc, and one is possible
\* exactly while the loop has not reached a break.
LoopStep == pc # "done" /\ pc' \in {"sense", "exchange", "act", "done"}

\* The loop is sequential code: while it has not reached a break, its next
\* step is executed.
SpecFair == Spec /\ WF_pc(LoopStep)

-----------------------------------------------------------------------------
(* main.rs: the tick loop with its history.  The loop only pushes to the    *)
(* history and never reads it (the visualiser does, after the loop), so     *)
(* Spec leaves it empty and this specification carries it.                  *)

\* Variant that saves the robots as they were before the exchange.
HistorySnapshot_before_exchange(robots_before_exchange, robots_after_exchange) ==
    robots_before_exchange

\* "Save state for visualization": sim.robots.clone() after the exchange loop.
HistorySnapshot(robots_before_exchange, robots_after_exchange) ==
    robots_after_exchange

\* 2. Exchange maps if possible, 3. save the state for visualization
ExchangeRecord ==
    /\ pc = "exchange"
    /\ robots' = [i \in Ids |-> ExchangeRobot(robots[i], robots)]
    /\ history' = Append(history, HistorySnapshot(robots, robots'))
    /\ pc' = "act"
    /\ UNCHANGED <<gmap, tick, phase2, start, args, out>>

NextHistory == Sense \/ ExchangeRecord \/ Act

SpecHistory == Init /\ [][NextHistory]_vars

-----------------------------------------------------------------------------
(* The boundary analyzer on its own: two agents in BoundaryAnalysis with     *)
(* arbitrary rotation totals (or no scout state), each running the analysis. *)

MaxRot == 5

OptRotations == {None} \cup {Some(r) : r \in (0 - MaxRot) .. MaxRot}

AnalysisRobot(id, position, rotation) ==
    LET base == [NewRobot(id, position, EAST_RAD, MapBox.width, MapBox.height)
                    EXCEPT !.phase = BoundaryAnalysis]
    IN  IF IsSome(rotation)
        THEN [initialize_boundary_scout(base) EXCEPT
                 !.boundary_scout[1].first_move = FALSE,
                 !.boundary_scout[1].total_rotation_steps = Get(rotation)]
        ELSE base

InitAnalyze ==
    /\ gmap = MapBox
    /\ args \in [r0 : OptRotations, r1 : OptRotations]
    /\ robots = (0 :> AnalysisRobot(0, <<1, 1>>, args.r0) @@
                 1 :> AnalysisRobot(1, <<2, 1>>, args.r1))
    /\ start = [mode |-> "analyze", p0 |-> <<1, 1>>, p1 |-> <<2, 1>>]
    /\ pc = "analyze"
    /\ tick = 0
    /\ phase2 = FALSE
    /\ out = [i \in Ids |-> None]
    /\ history = << >>

\* Agent i runs BoundaryAnalysisPhase::analyze_boundary_by_rotation.
Analyze(i) ==
    /\ pc = "analyze"
    /\ out[i] = None
    /\ out' = [out EXCEPT ![i] = Some(PhaseAnalyzeByRotation(robots[i], robots[Partner(i)]))]
    /\ UNCHANGED <<gmap, robots, pc, tick, phase2, start, args, history>>

NextAnalyze == \E i \in Ids : Analyze(i)

SpecAnalyze == InitAnalyze /\ [][NextAnalyze]_vars

-----------------------------------------------------------------------------
(* Merging and the exchange step on their own: two agents on a 4x1 strip     *)
(* with arbitrary private maps, known cells possibly in disagreement.        *)

MergeCells == 3

MapStrip == Grid(4, 1, {}, {})

\* Private maps whose first MergeCells cells are arbitrary, the rest Unexplored.
StripCells ==
    {c \in [1 .. Len(MapStrip.cells) -> CellState] :
        \A i \in 1 .. Len(MapStrip.cells) : i > MergeCells => c[i] = Unexplored}

StripRobot(id, x, cells) ==
    [NewRobot(id, <<x, 0>>, EAST_RAD, MapStrip.width, MapStrip.height)
        EXCEPT !.map.cells = cells]

InitStrip(at) ==
    /\ gmap = MapStrip
    /\ \E x0 \in 0 .. MapStrip.width - 1, x1 \in 0 .. MapStrip.width - 1,
          c0 \in StripCells, c1 \in StripCells :
          /\ robots = (0 :> StripRobot(0, x0, c0) @@ 1 :> StripRobot(1, x1, c1))
          /\ args = <<c0, c1>>
          /\ start = [mode |-> "strip", p0 |-> <<x0, 0>>, p1 |-> <<x1, 0>>]
    /\ pc = at
    /\ tick = 0
    /\ phase2 = FALSE
    /\ out = None
    /\ history = << >>

\* Agent i merges its partner's map; out names the agent that merged and
\* args keeps the two maps as they were before.
MergeStep(i) ==
    /\ pc = "merge"
    /\ robots' = [robots EXCEPT ![i] = merge_map(robots[i], robots[Partner(i)].map)]
    /\ args' = <<robots[0].map.cells, robots[1].map.cells>>
    /\ out' = Some(i)
    /\ UNCHANGED <<gmap, pc, tick, phase2, start, history>>

InitMerge == InitStrip("merge")

NextMerge == \E i \in Ids : MergeStep(i)

SpecMerge == InitMerge /\ [][NextMerge]_vars

InitExchange == InitStrip("exchange")

NextExchange == Exchange

SpecExchange == InitExchange /\ [][NextExchange]_vars

-----------------------------------------------------------------------------
(* wall_follow_step on its own: one call from any cell of a square grid, any *)
(* cardinal orientation and either hand rule; the four cells around (1,1)    *)
(* hold any cell state, so candidates are free, blocked or out of bounds.    *)

WallSide == 3

WallCentre == <<1, 1>>

WallRing == <<Add(WallCentre, NORTH), Add(WallCentre, EAST), Add(WallCentre, SOUTH), Add(WallCentre, WEST)>>

WallMap(ring) ==
    [width |-> WallSide, height |-> WallSide,
     cells |-> [i \in 1 .. WallSide * WallSide |->
                  IF \E k \in 1 .. 4 : PointOf(i, WallSide) = WallRing[k]
                  THEN ring[CHOOSE k \in 1 .. 4 : PointOf(i, WallSide) = WallRing[k]]
                  ELSE Empty]]

InitWall ==
    /\ \E ring \in [1 .. 4 -> {Empty, Obstacle, Unexplored}] : gmap = WallMap(ring)
    /\ args \in [pos : (0 .. WallSide - 1) \X (0 .. WallSide - 1),
                 orientation : {EAST_RAD, SOUTH_RAD, WEST_RAD, NORTH_RAD},
                 tracing_direction : {LEFT_HAND_RULE, RIGHT_HAND_RULE}]
    /\ robots = (0 :> NewRobot(0, args.pos, args.orientation, WallSide, WallSide) @@
                 1 :> NewRobot(1, args.pos, args.orientation, WallSide, WallSide))
    /\ start = [mode |-> "wall", p0 |-> args.pos, p1 |-> args.pos]
    /\ pc = "wall"
    /\ tick = 0
    /\ phase2 = FALSE
    /\ out = None
    /\ history = << >>

\* One call of WallFollower::wall_follow_step; out holds the returned Option.
WallStep ==
    /\ pc = "wall"
    /\ out = None
    /\ out' = Some(wall_follow_step(args.pos, args.orientation, gmap, args.tracing_direction))
    /\ UNCHANGED <<gmap, robots, pc, tick, phase2, start, args, history>>

NextWall == WallStep

SpecWall == InitWall /\ [][NextWall]_vars

-----------------------------------------------------------------------------
(* The tick loop on maps with a walled-in cell: an agent standing on such a  *)
(* cell has no legal move.                                                   *)

\* 7x5 box whose centre cell (3,2) is Empty and enclosed by four obstacles.
MapCell ==
    Grid(7, 5, BorderCells(7, 5) \cup {<<3, 1>>, <<2, 2>>, <<4, 2>>, <<3, 3>>}, {})

\* 5x3 box with an obstacle at (2,1): both interior cells are walled in.
MapCells == Grid(5, 3, BorderCells(5, 3) \cup {<<2, 1>>}, {})

\* The neighbours of p are all out of bounds or obstacles.
Enclosed(m, p) ==
    \A d \in {NORTH, EAST, SOUTH, WEST} : ~is_position_valid_and_empty(Add(p, d), m)

\* Robots given to SimulationManager::new on two different Empty interior
\* cells of which at least one is walled in.
StallPairs(m) ==
    LET Interior(p) ==
            p[1] >= 1 /\ p[1] < m.width - 1 /\ p[2] >= 1 /\ p[2] < m.height - 1
    IN  {pr \in ((0 .. m.width - 1) \X (0 .. m.height - 1)) \X
                ((0 .. m.width - 1) \X (0 .. m.height - 1)) :
            /\ Interior(pr[1]) /\ Interior(pr[2]) /\ pr[1] # pr[2]
            /\ CellAt(m, pr[1]) = Empty /\ CellAt(m, pr[2]) = Empty
            /\ Enclosed(m, pr[1]) \/ Enclosed(m, pr[2])}

\* Hand-built robots as above, or from_map_file on the map whose centre is
\* the walled-in cell (it has adjacent Empty pairs, so loading succeeds).
InitStall ==
    /\ gmap \in {MapCell, MapCells}
    /\ \/ \E pr \in StallPairs(gmap) :
              /\ robots = TestRobots(gmap, pr)
              /\ start = [mode |-> "new", p0 |-> pr[1], p1 |-> pr[2]]
       \/ /\ StartPairs(gmap) # {}
          /\ robots = FileRobots(gmap)
          /\ start = [mode |-> "file", p0 |-> robots[0].pos, p1 |-> robots[1].pos]
    /\ pc = "sense"
    /\ tick = 0
    /\ phase2 = FALSE
    /\ args = << >>
    /\ out = << >>
    /\ history = << >>

SpecStall == InitStall /\ [][Next]_vars

-----------------------------------------------------------------------------
(* Properties *)

Scout(i) == Get(robots[i].boundary_scout)

KnownCount(cells) == Cardinality({c \in 1 .. Len(cells) : cells[c] # Unexplored})

\* C1: whenever an agent leaves BoundaryAnalysis in a tick, its partner leaves
\* BoundaryAnalysis in the same tick and both enter the same next phase
\* (IslandEscape, or the interior-exploration phase).
C1_Agreement ==
    [][\A i \in Ids :
          (robots[i].phase = BoundaryAnalysis /\ robots'[i].phase # BoundaryAnalysis)
          => /\ robots[Partner(i)].phase = BoundaryAnalysis
             /\ robots'[Partner(i)].phase = robots'[i].phase
             /\ robots'[i].phase \in {IslandEscape, CentralScan, InteriorSweep}]_vars

\* Both agents have just left BoundaryAnalysis for IslandEscape, with the
\* rotation totals that made the analysis say Island still in their scout state.
C1_Witness ==
    /\ \A i \in Ids : robots[i].phase = IslandEscape /\ IsSome(robots[i].boundary_scout)
    /\ Scout(0).total_rotation_steps - Scout(1).total_rotation_steps = 4

\* C2: the analyzer returns ExteriorWall exactly when r0 - r1 = -4, Island
\* exactly when r0 - r1 = +4 and Incomplete otherwise (also when a total is
\* missing), whichever of the two agents runs it.
C2_Analyzer ==
    LET both == IsSome(args.r0) /\ IsSome(args.r1)
        Diff(d) == both /\ Get(args.r0) - Get(args.r1) = d
    IN  /\ \A i \in Ids :
               IsSome(out[i]) =>
                   /\ Get(out[i]) = ExteriorWall <=> Diff(-4)
                   /\ Get(out[i]) = Island <=> Diff(4)
                   /\ Get(out[i]) = Incomplete <=> (~Diff(-4) /\ ~Diff(4))
        /\ (IsSome(out[0]) /\ IsSome(out[1])) => out[0] = out[1]

\* Both agents have run the analysis on totals that differ by -4.
C2_Witness ==
    /\ IsSome(out[0]) /\ IsSome(out[1])
    /\ Get(out[1]) = ExteriorWall
    /\ IsSome(args.r0) /\ IsSome(args.r1)
    /\ Get(args.r0) - Get(args.r1) = -4

\* C3: whenever both agents of an adjacent start pair are in BoundaryAnalysis
\* after a rendezvous, their rotation totals differ by -4, 0 or +4.
C3_RotationIdentity ==
    (/\ start.mode = "new"
     /\ \A i \in Ids : robots[i].phase = BoundaryAnalysis /\ IsSome(robots[i].boundary_scout))
    => Scout(0).total_rotation_steps - Scout(1).total_rotation_steps \in {-4, 0, 4}

\* C4: map monotonicity: a private-map cell that is Empty or Obstacle keeps
\* exactly that value in every later state, on every ground-truth map.
C4_MapMonotone ==
    [][\A i \in Ids : \A c \in 1 .. Len(robots[i].map.cells) :
          robots[i].map.cells[c] # Unexplored
          => robots'[i].map.cells[c] = robots[i].map.cells[c]]_vars

\* C5: every known cell of every private map equals the ground truth.
C5_KnownCellsTrue ==
    \A i \in Ids : \A c \in 1 .. Len(robots[i].map.cells) :
        robots[i].map.cells[c] # Unexplored => robots[i].map.cells[c] = gmap.cells[c]

\* C6: starting from two in-bounds Empty cells, each agent's position is always
\* in bounds and on a cell whose ground truth is Empty (stated for the
\* ground-truth maps that have no Unexplored cell).
C6_PositionSafety ==
    (/\ start.mode = "new"
     /\ \A c \in 1 .. Len(gmap.cells) : gmap.cells[c] # Unexplored)
    => \A i \in Ids :
           /\ InBounds(robots[i].pos, gmap.width, gmap.height)
           /\ CellAt(gmap, robots[i].pos) = Empty

\* C7: leg symmetry: in the tick in which an agent finishes the return part of
\* a leg (returning is cleared and the path is reset), its position is path[0],
\* the cell at which the leg started.
C7_LegSymmetry ==
    [][\A i \in Ids :
          (/\ robots[i].phase = BoundaryScouting
           /\ IsSome(robots[i].boundary_scout)
           /\ Scout(i).returning
           /\ (~IsSome(robots'[i].boundary_scout)
               \/ ~Get(robots'[i].boundary_scout).returning))
          => /\ robots'[i].pos = Scout(i).path[1]
             /\ IsSome(robots'[i].boundary_scout)
             /\ Get(robots'[i].boundary_scout).path = <<Scout(i).path[1]>>]_vars

\* An agent has walked the three outbound steps of its first leg away from
\* the leg start, come back and finished the leg.
C7_Witness ==
    \E i \in Ids :
        /\ robots[i].phase = BoundaryScouting
        /\ IsSome(robots[i].boundary_scout)
        /\ robots[i].scout_depth_n = 2 * INITIAL_SCOUT_DEPTH
        /\ Scout(i).steps_taken = INITIAL_SCOUT_DEPTH
        /\ Scout(i).first_move /\ ~Scout(i).returning
        /\ Scout(i).path = <<robots[i].pos>>

\* C8: leg doubling: while an agent stays in BoundaryScouting, finishing a leg
\* doubles scout_depth_n and no other tick changes it; a leg turns around after
\* exactly scout_depth_n outbound steps, and the first leg has depth 3.
C8_LegDoubling ==
    [][\A i \in Ids :
          (robots[i].phase = BoundaryScouting /\ robots'[i].phase = BoundaryScouting)
          => LET before == robots[i].boundary_scout
                 after == Get(robots'[i].boundary_scout)
                 finished == IsSome(before) /\ Get(before).returning /\ ~after.returning
                 turned == IsSome(before) /\ ~Get(before).returning /\ after.returning
             IN  /\ robots'[i].scout_depth_n =
                        IF finished THEN 2 * robots[i].scout_depth_n
                        ELSE robots[i].scout_depth_n
                 /\ ~IsSome(before) => robots[i].scout_depth_n = 3
                 /\ turned => Len(after.path) = robots[i].scout_depth_n + 1
                 /\ \E k \in 0 .. 8 : robots'[i].scout_depth_n = 3 * 2 ^ k]_vars

\* An agent starts its third leg, of depth 12, after two full legs.
C8_Witness ==
    \E i \in Ids :
        /\ robots[i].phase = BoundaryScouting
        /\ IsSome(robots[i].boundary_scout)
        /\ robots[i].scout_depth_n = 12
        /\ Scout(i).steps_taken = 9
        /\ Scout(i).first_move

\* C9: merge_map(other) sets every cell to other's value where other's cell is
\* not Unexplored and leaves every other cell (and the partner) unchanged; no
\* known cell becomes Unexplored and the number of known cells never decreases.
C9_Merge ==
    IsSome(out) =>
        LET i == Get(out)
            before == args[i + 1]
            other == args[Partner(i) + 1]
            after == robots[i].map.cells
        IN  /\ \A c \in 1 .. Len(after) :
                   after[c] = IF other[c] # Unexplored THEN other[c] ELSE before[c]
            /\ \A c \in 1 .. Len(after) : before[c] # Unexplored => after[c] # Unexplored
            /\ KnownCount(after) >= KnownCount(before)
            /\ robots[Partner(i)].map.cells = other

\* A merge has overwritten a known Empty cell by the partner's Obstacle and
\* filled in an Unexplored cell.
C9_Witness ==
    /\ IsSome(out)
    /\ LET before == args[Get(out) + 1]
           after == robots[Get(out)].map.cells
       IN  /\ \E c \in 1 .. Len(after) : before[c] = Empty /\ after[c] = Obstacle
           /\ \E c \in 1 .. Len(after) : before[c] = Unexplored /\ after[c] = Empty

AgreeOnKnown(c0, c1) ==
    \A c \in 1 .. Len(c0) : (c0[c] # Unexplored /\ c1[c] # Unexplored) => c0[c] = c1[c]

\* C10: after the exchange step between two agents within communication range
\* whose maps agree on every cell both know, the two private maps are identical
\* and equal the cell-wise union of the two maps before the exchange.
C10_ExchangeUnion ==
    (/\ pc = "act"
     /\ manhattan_distance(robots[0].pos, robots[1].pos) <= 2
     /\ AgreeOnKnown(args[1], args[2]))
    => /\ robots[0].map.cells = robots[1].map.cells
       /\ \A c \in 1 .. Len(args[1]) :
              robots[0].map.cells[c] =
                  IF args[1][c] # Unexplored THEN args[1][c] ELSE args[2][c]

\* The exchange has run for two agents at distance 2, one knowing A = Empty and
\* not B, the other knowing B = Obstacle and not A.
C10_Witness ==
    /\ pc = "act"
    /\ manhattan_distance(robots[0].pos, robots[1].pos) = 2
    /\ AgreeOnKnown(args[1], args[2])
    /\ \E a, b \in 1 .. Len(args[1]) :
           /\ args[1][a] = Empty /\ args[1][b] = Unexplored
           /\ args[2][a] = Unexplored /\ args[2][b] = Obstacle
           /\ \A i \in Ids : robots[i].map.cells[a] = Empty /\ robots[i].map.cells[b] = Obstacle

Distance(i, j) ==
    Abs(robots[i].pos[1] - robots[j].pos[1]) + Abs(robots[i].pos[2] - robots[j].pos[2])

\* C11: in the exchange step of every tick an agent's private map is merged
\* with its partner's map exactly when their Manhattan distance at the start
\* of the step is at most 2; beyond that distance the step changes nothing.
C11_CommRange ==
    [][(pc = "exchange" /\ pc' = "act")
       => \A i \in Ids :
              LET own == robots[i].map.cells
                  other == robots[Partner(i)].map.cells
              IN  IF Distance(i, Partner(i)) <= 2
                  THEN robots'[i] =
                           [robots[i] EXCEPT !.map.cells =
                               [c \in 1 .. Len(own) |->
                                   IF other[c] # Unexplored THEN other[c] ELSE own[c]]]
                  ELSE robots'[i] = robots[i]]_vars

\* The exchange step has just run for two agents more than 2 apart, each
\* knowing a cell the other does not: nothing was merged.
C11_Witness ==
    /\ pc = "act"
    /\ Distance(0, 1) > 2
    /\ \A i \in Ids : \E c \in 1 .. Len(robots[i].map.cells) :
           /\ robots[i].map.cells[c] # Unexplored
           /\ robots[Partner(i)].map.cells[c] = Unexplored

\* C12: one sense step sets exactly the agent's own cell and its in-bounds
\* cardinal neighbours to their ground-truth values and leaves every other
\* private-map cell, the pose, the phase and the scout state unchanged; from a
\* fully Unexplored private map on an obstacle-bordered empty grid it leaves
\* exactly five known cells.
C12_SenseFrame ==
    [][(pc = "sense" /\ pc' = "exchange")
       => \A i \in Ids :
              LET before == robots[i].map.cells
                  after == robots'[i].map.cells
                  w == robots[i].map.width
                  h == robots[i].map.height
                  pos == robots[i].pos
                  Sensed(c) ==
                      LET x == (c - 1) % w
                          y == (c - 1) \div w
                      IN  Abs(x - pos[1]) + Abs(y - pos[2]) <= 1
              IN  /\ Len(after) = Len(before)
                  /\ \A c \in 1 .. Len(before) :
                         after[c] = IF Sensed(c) THEN gmap.cells[c] ELSE before[c]
                  /\ [robots'[i] EXCEPT !.map.cells = before] = robots[i]
                  /\ (/\ \A c \in 1 .. Len(before) : before[c] = Unexplored
                      /\ gmap = Grid(w, h, BorderCells(w, h), {}))
                     => KnownCount(after) = 5]_vars

\* The first sense step of a run on the 6x4 empty box has turned two blank
\* private maps into maps with five known cells each.
C12_Witness ==
    /\ pc = "exchange" /\ tick = 0 /\ start.mode = "new"
    /\ gmap = Grid(6, 4, BorderCells(6, 4), {})
    /\ \A i \in Ids :
           /\ KnownCount(robots[i].map.cells) = 5
           /\ robots[i].map.cells[Idx(robots[i].pos, 6)] = Empty

\* C13: for every position, cardinal orientation and map, wall_follow_step
\* returns the first of the four candidate cells that is in bounds and not an
\* Obstacle, taken in the order Right, Forward, Left, Back for chirality -1
\* and Left, Forward, Right, Back for chirality +1, where for the forward
\* vector (dx,dy) Left is (dy,-dx) and Right is (-dy,dx); it returns no move
\* exactly when all four candidates are out of bounds or obstacles.
C13_WallFollow ==
    (pc = "wall" /\ out # None)
    => LET f == CASE args.orientation = EAST_RAD -> <<1, 0>>
                  [] args.orientation = SOUTH_RAD -> <<0, 1>>
                  [] args.orientation = WEST_RAD -> <<0 - 1, 0>>
                  [] args.orientation = NORTH_RAD -> <<0, 0 - 1>>
           left == <<f[2], 0 - f[1]>>
           right == <<0 - f[2], f[1]>>
           back == <<0 - f[1], 0 - f[2]>>
           order == IF args.tracing_direction = 0 - 1
                    THEN <<right, f, left, back>>
                    ELSE <<left, f, right, back>>
           cand == [k \in 1 .. 4 |-> <<args.pos[1] + order[k][1], args.pos[2] + order[k][2]>>]
           Free(p) == /\ p[1] >= 0 /\ p[1] < gmap.width
                      /\ p[2] >= 0 /\ p[2] < gmap.height
                      /\ gmap.cells[p[2] * gmap.width + p[1] + 1] # Obstacle
           result == Get(out)
       IN  /\ \A k \in 1 .. 4 :
                  (Free(cand[k]) /\ \A j \in 1 .. k - 1 : ~Free(cand[j]))
                  => result = <<cand[k]>>
           /\ (result = << >>) <=> (\A k \in 1 .. 4 : ~Free(cand[k]))

\* A left-hand call facing North at (1,1) with Right an obstacle, Forward an
\* obstacle and Left unexplored returns Left; a call from the grid's corner
\* has two candidates out of bounds.
C13_Witness ==
    /\ pc = "wall" /\ out # None
    /\ args.pos = WallCentre /\ args.orientation = NORTH_RAD
    /\ args.tracing_direction = LEFT_HAND_RULE
    /\ CellAt(gmap, <<2, 1>>) = Obstacle /\ CellAt(gmap, <<1, 0>>) = Obstacle
    /\ CellAt(gmap, <<0, 1>>) = Unexplored
    /\ Get(out) = Some(<<0, 1>>)

\* The integration tests' start on map m: agents 0 and 1 built by hand at
\* p0 and p1, facing North, in InitialWallFind.
Scenario(m, p0, p1) == gmap = m /\ start = [mode |-> "new", p0 |-> p0, p1 |-> p1]

\* C14: on the 6x4 empty box with agents 0 and 1 starting at (1,1) and (2,1)
\* in InitialWallFind facing North, the run eventually reaches a state in
\* which both agents are in BoundaryAnalysis and the analyzer returns
\* ExteriorWall.
C14_Scenario1 ==
    Scenario(MapBox, <<1, 1>>, <<2, 1>>)
    => <>(/\ AllInPhase(robots, {BoundaryAnalysis})
          /\ \E i \in Ids :
                 PhaseAnalyzeByRotation(robots[i], robots[Partner(i)]) = ExteriorWall)

\* C15: on the 6x4 empty box with agents starting at (1,1) and (2,1), the run
\* eventually reaches a state in which at least one agent's private map marks
\* every '.' cell of the ground truth Empty and every '#' cell, the four
\* corners included, Obstacle.
C15_Coverage ==
    Scenario(MapBox, <<1, 1>>, <<2, 1>>)
    => <>(\E i \in Ids :
             \A c \in 1 .. Len(gmap.cells) :
                 /\ gmap.cells[c] = Empty => robots[i].map.cells[c] = Empty
                 /\ gmap.cells[c] = Obstacle => robots[i].map.cells[c] = Obstacle)

\* C16: on the 12x4 corridor, from the tests' start pair (1,1),(2,1), from
\* the mid-corridor pair (5,1),(6,1) and from every other adjacent pair, some
\* agent is in BoundaryAnalysis within 100 ticks and each agent is in
\* BoundaryAnalysis at some point before the tick cap.
C16_Corridor ==
    (gmap = MapCorridor /\ start.mode = "new")
    => /\ <>(tick <= 100 /\ \E i \in Ids : robots[i].phase = BoundaryAnalysis)
       /\ \A i \in Ids : <>(tick <= MAX_TICKS /\ robots[i].phase = BoundaryAnalysis)

\* The mid-corridor pair with both agents in BoundaryAnalysis.
C16_Witness ==
    /\ Scenario(MapCorridor, <<5, 1>>, <<6, 1>>)
    /\ tick <= 100
    /\ AllInPhase(robots, {BoundaryAnalysis})

\* C17: on the 10x6 box with a central 2x2 island and agents starting at
\* (1,1) and (2,1), within 200 ticks at least one agent is in
\* BoundaryAnalysis or IslandEscape.
C17_Island ==
    Scenario(MapIsland, <<1, 1>>, <<2, 1>>)
    => <>(tick <= 200 /\ \E i \in Ids : robots[i].phase \in {BoundaryAnalysis, IslandEscape})

\* The island scenario at the first tick with an agent in BoundaryAnalysis.
C17_Witness ==
    /\ Scenario(MapIsland, <<1, 1>>, <<2, 1>>)
    /\ tick <= 200
    /\ \E i \in Ids : /\ robots[i].phase = BoundaryAnalysis
                      /\ robots[Partner(i)].phase = BoundaryScouting

\* C18: every run of the main loop terminates, and it executes at most 500
\* act steps before stopping: the act step of a tick is executed only while
\* fewer than MAX_TICKS act steps have been executed before it.
C18_TickCap ==
    /\ <>(pc = "done")
    /\ [][(pc = "act" /\ pc' # "act") => tick + 1 <= MAX_TICKS]_vars

\* C19: the main loop stops only in a state where all agents are Idle or the
\* tick cap has been reached; it never stops while some agent is in another
\* phase and the tick counter is below the cap.
C19_StopCondition ==
    pc = "done" => (AllInPhase(robots, {Idle}) \/ tick >= MAX_TICKS)

\* The cells of map m that are Empty and connected to a cell of seen by a
\* path of cardinally adjacent Empty cells.
RECURSIVE ReachableFrom(_, _)
ReachableFrom(seen, m) ==
    LET grown == seen \cup
                 {q \in (0 .. m.width - 1) \X (0 .. m.height - 1) :
                     /\ CellAt(m, q) = Empty
                     /\ \E p \in seen : Abs(p[1] - q[1]) + Abs(p[2] - q[2]) = 1}
    IN  IF grown = seen THEN seen ELSE ReachableFrom(grown, m)

\* C20: in every state in which both agents are Idle, every empty cell
\* reachable from the start positions is marked Empty in at least one of the
\* two private maps, and every obstacle cell cardinally adjacent to such a
\* cell is marked Obstacle in at least one of them.
C20_Completeness ==
    AllInPhase(robots, {Idle})
    => LET reach == ReachableFrom({p \in {start.p0, start.p1} : CellAt(gmap, p) = Empty}, gmap)
           Marked(q, v) == \E i \in Ids : CellAt(robots[i].map, q) = v
       IN  \A q \in (0 .. gmap.width - 1) \X (0 .. gmap.height - 1) :
               /\ q \in reach => Marked(q, Empty)
               /\ (/\ CellAt(gmap, q) = Obstacle
                   /\ \E p \in reach : Abs(p[1] - q[1]) + Abs(p[2] - q[2]) = 1)
                  => Marked(q, Obstacle)

\* The phase changes the handlers can make.
PhaseEdges ==
    {<<InitialWallFind, BoundaryScouting>>, <<BoundaryScouting, BoundaryAnalysis>>,
     <<BoundaryAnalysis, IslandEscape>>, <<BoundaryAnalysis, InteriorSweep>>,
     <<BoundaryAnalysis, CentralScan>>, <<IslandEscape, BoundaryScouting>>,
     <<IslandEscape, InitialWallFind>>, <<InteriorSweep, Idle>>, <<CentralScan, Idle>>}

C22_PartnerGating ==
    [][\A i \in Ids :
          robots[i].phase = BoundaryAnalysis
          => /\ robots'[i].phase # BoundaryAnalysis
                => pc = "act" /\ robots[Partner(i)].phase = BoundaryAnalysis
             /\ (pc = "act" /\ robots[Partner(i)].phase # BoundaryAnalysis)
                => /\ robots'[i].phase = robots[i].phase
                   /\ robots'[i].pos = robots[i].pos
                   /\ robots'[i].orientation_rad = robots[i].orientation_rad
                   /\ robots'[i].scout_depth_n = robots[i].scout_depth_n
                   /\ robots'[i].boundary_scout = robots[i].boundary_scout]_vars

\* Agent 1 of the 6x4 box scenario, in BoundaryAnalysis since tick 2, still
\* waiting at tick 5 for its partner, which is scouting.
C22_Witness ==
    /\ Scenario(MapBox, <<1, 1>>, <<2, 1>>)
    /\ pc = "sense" /\ tick = 5
    /\ robots[1].phase = BoundaryAnalysis
    /\ robots[0].phase = BoundaryScouting

\* C23: an agent goes from BoundaryScouting to BoundaryAnalysis only in an
\* act step in which it made an outbound wall-follow move (not returning, not
\* stalled) that was not the first move of its leg, and after which its
\* position is within Manhattan distance 2 of the partner's snapshot position
\* and different from it.
C23_RendezvousGuard ==
    [][\A i \in Ids :
          (robots[i].phase = BoundaryScouting /\ robots'[i].phase = BoundaryAnalysis)
          => /\ pc = "act"
             /\ IsSome(robots[i].boundary_scout)
             /\ ~Scout(i).returning
             /\ ~Scout(i).first_move
             /\ Scout(i).steps_taken_this_scouting_mission < robots[i].scout_depth_n
             /\ robots'[i].pos # robots[i].pos
             /\ Get(robots'[i].boundary_scout).path = Append(Scout(i).path, robots'[i].pos)
             /\ Get(robots'[i].boundary_scout).steps_taken = Scout(i).steps_taken + 1
             /\ Abs(robots'[i].pos[1] - robots[Partner(i)].pos[1])
                + Abs(robots'[i].pos[2] - robots[Partner(i)].pos[2]) <= 2
             /\ robots'[i].pos # robots[Partner(i)].pos]_vars

\* Agent 1 of the 6x4 box scenario right after its rendezvous in tick 2: in
\* BoundaryAnalysis on the last cell of its outbound path, partner scouting.
C23_Witness ==
    /\ Scenario(MapBox, <<1, 1>>, <<2, 1>>)
    /\ pc = "sense" /\ tick = 3
    /\ robots[1].phase = BoundaryAnalysis
    /\ robots[0].phase = BoundaryScouting
    /\ Scout(1).path[Len(Scout(1).path)] = robots[1].pos
    /\ Len(Scout(1).path) >= 3

\* C24: from the state at the start of the exchange sub-step and of the act
\* sub-step of any tick, processing the agents in the order (0,1) gives
\* exactly the same agents as processing them in the order (1,0), and that
\* is the state the sub-step produces.
C24_OrderIndependence ==
    [][/\ pc = "exchange"
          => /\ ExchangeInOrder(robots, <<0, 1>>) = ExchangeInOrder(robots, <<1, 0>>)
             /\ robots' = ExchangeInOrder(robots, <<0, 1>>)
       /\ pc = "act"
          => /\ ActInOrder(robots, <<0, 1>>, gmap) = ActInOrder(robots, <<1, 0>>, gmap)
             /\ robots' = ActInOrder(robots, <<0, 1>>, gmap)]_vars

\* After a tick in which both agents made an outbound move, each one's
\* rendezvous test having read the other's snapshot position; they are now
\* out of communication range.
C24_Witness ==
    /\ pc = "sense" /\ tick >= 2
    /\ AllInPhase(robots, {BoundaryScouting})
    /\ \A i \in Ids : /\ IsSome(robots[i].boundary_scout)
                      /\ ~Scout(i).first_move
                      /\ Len(Scout(i).path) >= 2
    /\ Distance(0, 1) > 2

\* Both agents are on the first leg of a scouting phase that they began on
\* horizontally adjacent cells under the same wall (an obstacle directly
\* north of each), and both have made the first outbound move of that leg.
FirstLegUnderway ==
    /\ start.mode = "new" /\ start.p0[2] = start.p1[2]
    /\ \A i \in Ids :
          /\ robots[i].phase = BoundaryScouting
          /\ IsSome(robots[i].boundary_scout)
          /\ robots[i].scout_depth_n = INITIAL_SCOUT_DEPTH
          /\ ~Scout(i).returning /\ ~Scout(i).first_move
          /\ IsSome(Scout(i).initial_scouting_direction)
          /\ ~is_position_valid_and_empty(Add(Scout(i).path[1], NORTH), gmap)
    /\ Scout(0).path[1][2] = Scout(1).path[1][2]
    /\ Abs(Scout(0).path[1][1] - Scout(1).path[1][1]) = 1

\* C25: for two agents that start adjacent and enter BoundaryScouting at the
\* same wall, once both have made the first outbound move of their first leg
\* their tracing_direction values are opposite (one -1, one +1) and their
\* departure directions along the wall are opposite.
C25_OppositeChirality ==
    FirstLegUnderway
    => /\ Scout(0).tracing_direction = 0 - Scout(1).tracing_direction
       /\ Get(Scout(0).initial_scouting_direction)
          = RelBack(Get(Scout(1).initial_scouting_direction))

\* C26: in the tick in which an agent goes from BoundaryScouting to
\* BoundaryAnalysis (rendezvous), its scout_depth_n becomes twice its value
\* at the start of that tick.
C26_RendezvousDoubling ==
    [][\A i \in Ids :
          (robots[i].phase = BoundaryScouting /\ robots'[i].phase = BoundaryAnalysis)
          => robots'[i].scout_depth_n = 2 * robots[i].scout_depth_n]_vars

\* The signed 90-degree turns of the moves 2..k along a path of k moves
\* (k + 1 cells): the turn of move j is taken from the heading of move j - 1
\* to the heading of move j.
RECURSIVE PathRotation(_, _)
PathRotation(path, k) ==
    IF k < 2 THEN 0
    ELSE PathRotation(path, k - 1)
         + calculate_rotation_steps(update_orientation(path[k - 1], path[k]),
                                    update_orientation(path[k], path[k + 1]))

\* C27: after the first outbound step of every leg the agent's
\* total_rotation_steps is 0, and after the k-th outbound step of the leg
\* (k >= 2) it is the sum of the signed 90-degree rotation steps of outbound
\* moves 2..k of that leg only; nothing is carried over from earlier legs or
\* from the return.
C27_RotationReset ==
    \A i \in Ids :
        (/\ robots[i].phase \in {BoundaryScouting, BoundaryAnalysis}
         /\ IsSome(robots[i].boundary_scout)
         /\ ~Scout(i).first_move)
        => /\ Len(Scout(i).path) = 2 => Scout(i).total_rotation_steps = 0
           /\ Scout(i).total_rotation_steps
              = PathRotation(Scout(i).path, Len(Scout(i).path) - 1)

\* An agent on its second leg (depth doubled once) that has turned during
\* the outbound moves after the first.
C27_Witness ==
    \E i \in Ids :
        /\ robots[i].phase = BoundaryScouting
        /\ IsSome(robots[i].boundary_scout)
        /\ robots[i].scout_depth_n = 2 * INITIAL_SCOUT_DEPTH
        /\ ~Scout(i).first_move /\ ~Scout(i).returning
        /\ Len(Scout(i).path) >= 3
        /\ Scout(i).total_rotation_steps # 0

\* C28: the total_rotation_steps of an agent in BoundaryScouting or
\* BoundaryAnalysis changes only in an act step in which the agent makes an
\* outbound wall-follow move; the turn-around tick, every return move, the
\* leg-reset tick and every tick spent in BoundaryAnalysis leave it
\* unchanged.
C28_RotationFrame ==
    [][\A i \in Ids :
          (/\ robots[i].phase \in {BoundaryScouting, BoundaryAnalysis}
           /\ IsSome(robots[i].boundary_scout)
           /\ IsSome(robots'[i].boundary_scout)
           /\ Get(robots'[i].boundary_scout).total_rotation_steps
              # Scout(i).total_rotation_steps)
          => /\ pc = "act"
             /\ robots[i].phase = BoundaryScouting
             /\ ~Scout(i).returning
             /\ Scout(i).steps_taken_this_scouting_mission < robots[i].scout_depth_n
             /\ robots'[i].pos # robots[i].pos
             /\ Get(robots'[i].boundary_scout).path
                = Append(Scout(i).path, robots'[i].pos)]_vars

\* An agent at the start of a later leg, after a turn-around, a return and
\* a leg reset, still holding the non-zero total of the leg before.
C28_Witness ==
    \E i \in Ids :
        /\ robots[i].phase = BoundaryScouting
        /\ IsSome(robots[i].boundary_scout)
        /\ robots[i].scout_depth_n > INITIAL_SCOUT_DEPTH
        /\ Scout(i).first_move /\ Len(Scout(i).path) = 1
        /\ Scout(i).total_rotation_steps # 0

\* C29: within one scouting phase the stored initial_scouting_direction,
\* once set on the first leg, is not changed, and the first outbound move of
\* every later leg is a step in that direction.
C29_StoredDirection ==
    [][\A i \in Ids :
          (/\ robots[i].phase = BoundaryScouting
           /\ IsSome(robots[i].boundary_scout)
           /\ IsSome(Scout(i).initial_scouting_direction))
          => /\ IsSome(robots'[i].boundary_scout)
             /\ Get(robots'[i].boundary_scout).initial_scouting_direction
                = Scout(i).initial_scouting_direction
             /\ (Scout(i).first_move /\ robots'[i].pos # robots[i].pos)
                => robots'[i].pos
                   = Add(robots[i].pos, Get(Scout(i).initial_scouting_direction))]_vars

\* An agent that has just made the first outbound move of its third leg
\* (depth doubled twice), one step from the leg start in the stored direction.
C29_Witness ==
    \E i \in Ids :
        /\ robots[i].phase = BoundaryScouting
        /\ IsSome(robots[i].boundary_scout)
        /\ robots[i].scout_depth_n = 4 * INITIAL_SCOUT_DEPTH
        /\ ~Scout(i).first_move /\ ~Scout(i).returning
        /\ Len(Scout(i).path) = 2
        /\ IsSome(Scout(i).initial_scouting_direction)
        /\ Scout(i).path[2] = Add(Scout(i).path[1], Get(Scout(i).initial_scouting_direction))

\* C30: for two agents that start adjacent, whenever an agent completes a
\* leg (it is back at its leg start and its depth is doubled), the two agents
\* are within communication range (Manhattan distance at most 2) of each
\* other.
C30_LegEndInRange ==
    [][\A i \in Ids :
          (/\ start.mode = "new"
           /\ robots[i].phase = BoundaryScouting
           /\ IsSome(robots[i].boundary_scout)
           /\ Scout(i).returning
           /\ robots'[i].scout_depth_n = 2 * robots[i].scout_depth_n
           /\ robots'[i].pos = Scout(i).path[1])
          => Abs(robots'[0].pos[1] - robots'[1].pos[1])
             + Abs(robots'[0].pos[2] - robots'[1].pos[2]) <= 2]_vars

\* C31: whenever an agent goes from IslandEscape to BoundaryScouting, the step
\* is an escape move of one cell whose next cell in the same direction is an
\* obstacle or out of bounds, its scout_depth_n becomes INITIAL_SCOUT_DEPTH and
\* its scout state is discarded; and the scouting tick of an agent without
\* scout state starts a fresh first leg: afterwards its path starts at the
\* cell it stood on, it holds that cell alone or that cell and the agent's new
\* cell, the rotation total is 0, and the stored initial direction is absent
\* (no move) or the move just made.
C31_EscapeReset ==
    [][\A i \in Ids :
          /\ (robots[i].phase = IslandEscape /\ robots'[i].phase = BoundaryScouting)
             => LET d == <<robots'[i].pos[1] - robots[i].pos[1],
                           robots'[i].pos[2] - robots[i].pos[2]>>
                IN  /\ d \in {NORTH, EAST, SOUTH, WEST}
                    /\ ~InBounds(Add(robots'[i].pos, d), gmap.width, gmap.height)
                       \/ CellAt(gmap, Add(robots'[i].pos, d)) = Obstacle
                    /\ robots'[i].scout_depth_n = INITIAL_SCOUT_DEPTH
                    /\ robots'[i].boundary_scout = None
          /\ (/\ pc = "act"
              /\ robots[i].phase = BoundaryScouting
              /\ robots[i].boundary_scout = None)
             => /\ IsSome(robots'[i].boundary_scout)
                /\ LET s == Get(robots'[i].boundary_scout)
                   IN  /\ s.path \in {<<robots[i].pos>>, <<robots[i].pos, robots'[i].pos>>}
                       /\ s.total_rotation_steps = 0
                       /\ s.steps_taken = Len(s.path) - 1
                       /\ ~s.returning
                       /\ s.initial_scouting_direction
                            \in {None, Some(<<robots'[i].pos[1] - robots[i].pos[1],
                                              robots'[i].pos[2] - robots[i].pos[2]>>)}
                /\ robots'[i].scout_depth_n = robots[i].scout_depth_n]_vars

\* An agent that has just left IslandEscape for BoundaryScouting: it no longer
\* faces North (wall finding never turns an agent), its scout state is gone
\* and its depth is the initial one.
C31_Witness ==
    \E i \in Ids :
        /\ start.mode = "new"
        /\ robots[i].phase = BoundaryScouting
        /\ robots[i].boundary_scout = None
        /\ robots[i].scout_depth_n = INITIAL_SCOUT_DEPTH
        /\ robots[i].orientation_rad # NORTH_RAD

\* C32: in the act step of a tick an agent in InitialWallFind whose northern
\* neighbour is in bounds and not an Obstacle of the ground truth moves exactly
\* one cell in the -Y direction and stays in InitialWallFind; otherwise it
\* switches to BoundaryScouting without moving; and an agent is never in
\* InitialWallFind once as many ticks as the map is high have been run.
C32_WallFind ==
    [][\A i \in Ids :
          /\ (pc = "act" /\ robots[i].phase = InitialWallFind)
             => LET north == Add(robots[i].pos, NORTH)
                IN  IF /\ InBounds(north, gmap.width, gmap.height)
                       /\ CellAt(gmap, north) # Obstacle
                    THEN /\ robots'[i].pos = north
                         /\ robots'[i].phase = InitialWallFind
                    ELSE /\ robots'[i].pos = robots[i].pos
                         /\ robots'[i].phase = BoundaryScouting
          /\ robots'[i].phase = InitialWallFind => tick' < gmap.height]_vars

\* An agent that has walked north for at least one tick and now stands under
\* an obstacle, in the tick in which it switches.
C32_Witness ==
    \E i \in Ids :
        /\ pc = "act"
        /\ tick >= 1
        /\ robots[i].phase = InitialWallFind
        /\ robots[i].pos = Add(IF i = 0 THEN start.p0 ELSE start.p1, <<0, 0 - tick>>)
        /\ CellAt(gmap, Add(robots[i].pos, NORTH)) = Obstacle

\* C33: in the act step of a tick, an agent in the outbound part of
\* BoundaryScouting (not returning, fewer steps than the leg depth) whose four
\* neighbours are all obstacles or out of bounds keeps its position,
\* orientation, phase, leg depth and private map, and its scout state (path,
\* step counters, rotation total, first-move flag, directions) is unchanged,
\* or freshly initialised at its cell if it had none; and the loop goes on to
\* the next tick unless the tick cap is reached.
C33_Stall ==
    [][\A i \in Ids :
          (/\ pc = "act"
           /\ robots[i].phase = BoundaryScouting
           /\ Enclosed(gmap, robots[i].pos)
           /\ IsSome(robots[i].boundary_scout)
              => /\ ~Scout(i).returning
                 /\ Scout(i).steps_taken_this_scouting_mission < robots[i].scout_depth_n)
          => /\ robots'[i].pos = robots[i].pos
             /\ robots'[i].orientation_rad = robots[i].orientation_rad
             /\ robots'[i].phase = BoundaryScouting
             /\ robots'[i].scout_depth_n = robots[i].scout_depth_n
             /\ robots'[i].map = robots[i].map
             /\ robots'[i].boundary_scout =
                    IF IsSome(robots[i].boundary_scout)
                    THEN robots[i].boundary_scout
                    ELSE initialize_boundary_scout(robots[i]).boundary_scout
             /\ IF tick < MAX_TICKS
                THEN pc' = "sense" /\ tick' = tick + 1
                ELSE pc' = "done"]_vars

\* A walled-in agent that has been stalling for several ticks with its scout
\* state in place: still on its start cell, no step taken, path of one cell.
C33_Witness ==
    \E i \in Ids :
        /\ pc = "act"
        /\ tick >= 5
        /\ robots[i].phase = BoundaryScouting
        /\ Enclosed(gmap, robots[i].pos)
        /\ IsSome(robots[i].boundary_scout)
        /\ Scout(i).path = <<robots[i].pos>>
        /\ Scout(i).steps_taken = 0

\* C34: once the boundary has been classified ExteriorWall (an agent has
\* entered CentralScan, which only that classification leads to), both
\* agents eventually are Idle.
C34_ExteriorCompletes ==
    (\E i \in Ids : robots[i].phase = CentralScan) ~> AllInPhase(robots, {Idle})

\* C35: the history only grows and its recorded snapshots never change; it
\* holds exactly one snapshot per tick begun (tick k's snapshot is entry
\* k + 1, present once the exchange of tick k is done); and that snapshot is
\* the agents' state (position, phase, private map and all) as it is after
\* the sense and exchange steps of tick k and before its act step.
C35_History ==
    [][/\ Len(history') >= Len(history)
       /\ \A k \in 1 .. Len(history) : history'[k] = history[k]
       /\ pc' \in {"sense", "exchange"} => Len(history') = tick'
       /\ pc' = "act" => /\ Len(history') = tick' + 1
                         /\ history'[tick' + 1] = robots'
       /\ pc = "act" => /\ history' = history
                        /\ history[tick + 1] = robots]_vars

\* Before the act step of a later tick: several snapshots are recorded, the
\* exchange of this tick has merged something into agent 0's map, and the
\* agents have moved since the first snapshot.
C35_Witness ==
    /\ pc = "act"
    /\ tick >= 3
    /\ Len(history) = tick + 1
    /\ history[1][0].pos # robots[0].pos
    /\ history[tick][0].map # history[tick + 1][0].map

\* C36: the two agents created by from_map_file stand on two distinct,
\* cardinally adjacent, Empty, non-border cells of the map (from_map_file
\* succeeds exactly on the maps that have such a pair).
C36_Placement ==
    (start.mode = "file" /\ tick = 0 /\ pc = "sense")
        => /\ StartPairs(gmap) # {}
           /\ <<robots[0].pos, robots[1].pos>> \in StartPairs(gmap)

\* C37: if before the act step of a tick both agents are in BoundaryAnalysis
\* and the rotation analysis is Incomplete, the act step leaves both agents
\* in BoundaryAnalysis at the same positions with the same rotation totals,
\* and the run goes on: the loop stops there only by the tick cap.
C37_IncompletePermanent ==
    [][(/\ pc = "act"
        /\ AllInPhase(robots, {BoundaryAnalysis})
        /\ PhaseAnalyzeByRotation(robots[0], robots[1]) = Incomplete)
       => /\ \A i \in Ids :
                /\ robots'[i].phase = BoundaryAnalysis
                /\ robots'[i].pos = robots[i].pos
                /\ RotationOf(robots'[i]) = RotationOf(robots[i])
          /\ pc' = "done" => tick' > MAX_TICKS]_vars

C39_IdlePropagates ==
    [][/\ \A i \in Ids :
             (pc = "act" /\ robots[i].phase = Idle)
             => /\ robots[Partner(i)].phase \in {CentralScan, Idle}
                /\ robots'[Partner(i)].phase = Idle
                /\ robots'[i].phase = Idle
                /\ pc' = "done"
                /\ tick' = tick
       /\ (pc' = "done" /\ \E i \in Ids : robots'[i].phase = Idle)
          => AllInPhase(robots', {Idle})]_vars

\* Before the act step of a tick, one agent is Idle and its partner is still
\* tracing in CentralScan.
C39_Witness ==
    \E i \in Ids :
        /\ pc = "act"
        /\ robots[i].phase = Idle
        /\ robots[Partner(i)].phase = CentralScan

\* C40: in one tick an agent's position changes by at most one unit cardinal
\* step: the Manhattan distance between its positions before and after the
\* act step is at most 1 (the sense and exchange steps never move it).
C40_UnitStep ==
    [][\A i \in Ids :
          Abs(robots'[i].pos[1] - robots[i].pos[1])
          + Abs(robots'[i].pos[2] - robots[i].pos[2]) <= 1]_vars

====
